---- MODULE Spec2Model ----
(***************************************************************************)
(* Model of the DeSci paper platform: the HTTP API of src/server.js,       *)
(* src/routes/paperRoutes.js and src/routes/chatRoutes.js over the paper   *)
(* collection of src/models/PaperDocument.js, and the paper search of the  *)
(* console agent src/desci-agent.js.                                       *)
(*                                                                         *)
(* JavaScript values are tagged records: undefined, strings, numbers, NaN  *)
(* and arrays.  A string is a sequence of chunks; a chunk is a blank " ",  *)
(* a sign, a decimal digit, or a word.                                     *)
(***************************************************************************)
EXTENDS Integers, Sequences, FiniteSets, TLC

VARIABLES
    proc,        \* server process: "starting", "listening" or "exited"
    locals,      \* app.locals: upload, hederaClient, mainTopicId
    env,         \* process.env and module-level configuration
    papers,      \* the PaperDocument collection, in insertion order
    submitted,   \* history: submitted[k] is the request body that created papers[k]
    blobs,       \* GridFS bucket 'papers': the stored file ids
    topics,      \* ledger topics in creation order: "registry" or "content"
    req,         \* the request (or call) handled last
    res,         \* its response (or result)
    docs,        \* PaperDocument instances held by callers of recordAccess
    accessLog,   \* history: the calls of recordAccess, in the order they began
    agent,       \* the research agent process of src/desci-agent.js
    servers      \* server processes started side by side on one ledger

vars == <<proc, locals, env, papers, submitted, blobs, topics, req, res, docs, accessLog,
          agent, servers>>

----------------------------------------------------------------------------
(* Bounds of the model *)

\* number of distinct paper ids clients submit to the HTTP API
NumPaperIds == 2
\* cap on the files kept in the blob bucket (a content topic needs a stored file)
MaxBlobs == 1
\* number of papers the collection is drawn from when searches are checked
NumCatalog == 6
\* number of PaperDocument instances callers hold at once
NumHandles == 2
\* number of recordAccess calls followed
MaxCalls == 2
\* highest access count the stored papers start from
MaxOriginalCount == 1
\* number of papers in the store the agent searches
NumStored == 3
\* number of inputs the agent is followed through
MaxCommands == 4
\* number of server processes started side by side
NumServers == 2

----------------------------------------------------------------------------
(* JavaScript values *)

Undef == [t |-> "undefined"]
NaN == [t |-> "nan"]
Str(s) == [t |-> "str", s |-> s]
Num(n) == [t |-> "num", n |-> n]
Arr(a) == [t |-> "arr", a |-> a]

\* ToBoolean: undefined, NaN, 0 and "" are falsy; any array or object is truthy
Truthy(v) ==
    CASE v.t = "undefined" -> FALSE
      [] v.t = "nan" -> FALSE
      [] v.t = "str" -> v.s # <<>>
      [] v.t = "num" -> v.n # 0
      [] v.t = "arr" -> TRUE
      [] v.t = "object" -> TRUE

IsArray(v) == v.t = "arr"

Digits == <<"0", "1", "2", "3", "4", "5", "6", "7", "8", "9">>

IsDigit(c) == \E d \in 1..10 : Digits[d] = c

DigitValue(c) == (CHOOSE d \in 1..10 : Digits[d] = c) - 1

RECURSIVE SkipBlanks(_)
SkipBlanks(s) == IF s # <<>> /\ Head(s) = " " THEN SkipBlanks(Tail(s)) ELSE s

\* value of the longest prefix of decimal digits of s, continuing from acc
RECURSIVE DigitsPrefix(_, _)
DigitsPrefix(s, acc) ==
    IF s # <<>> /\ IsDigit(Head(s))
    THEN DigitsPrefix(Tail(s), 10 * acc + DigitValue(Head(s)))
    ELSE acc

ParseFloatStr(s) ==
    LET u == SkipBlanks(s)
        neg == u # <<>> /\ Head(u) = "-"
        d == IF u # <<>> /\ Head(u) \in {"-", "+"} THEN Tail(u) ELSE u
    IN  IF d = <<>> \/ ~IsDigit(Head(d)) THEN NaN
        ELSE Num(IF neg THEN 0 - DigitsPrefix(d, 0) ELSE DigitsPrefix(d, 0))

\* parseFloat(v): the argument is converted to a string and its numeric prefix parsed
ParseFloat(v) ==
    CASE v.t = "num" -> v
      [] v.t = "str" -> ParseFloatStr(v.s)
      [] OTHER -> NaN

\* a || b
OrElse(a, b) == IF Truthy(a) THEN a ELSE b

----------------------------------------------------------------------------
(* The PaperDocument collection *)

\* mongoose's required validator on a String path: present and not ''
RequiredString(v) == v.t = "str" /\ v.s # <<>>

\* the schema's validation, run by save() before the insert
ValidatePaper(doc) ==
    /\ RequiredString(doc.paperId)
    /\ RequiredString(doc.title)
    /\ \A i \in DOMAIN doc.authors.a : RequiredString(doc.authors.a[i])
    /\ RequiredString(doc.abstract)
    /\ doc.contentTopicId # 0
    /\ RequiredString(doc.publisherId)
    /\ doc.fee.t = "num"

\* a collection whose unique index on paperId is missing
DuplicateKey_NoIndex(coll, doc) == FALSE

\* the unique index on paperId: an insert of a stored paperId is refused
DuplicateKey(coll, doc) == \E k \in DOMAIN coll : coll[k].paperId = doc.paperId

\* newPaper.save(): "ok", or the error it rejects with
SaveOutcome(coll, doc) ==
    IF ~ValidatePaper(doc) THEN "PaperDocument validation failed"
    ELSE IF DuplicateKey(coll, doc) THEN "E11000 duplicate key error"
    ELSE "ok"

\* PaperDocument.findOne({ paperId: id }): index of the first match, 0 if none
FindOne(coll, id) ==
    IF \E k \in DOMAIN coll : coll[k].paperId = id
    THEN CHOOSE k \in DOMAIN coll :
            /\ coll[k].paperId = id
            /\ \A j \in 1..(k - 1) : coll[j].paperId # id
    ELSE 0

\* the schema defaults and the fields both endpoints set
NewPaperDocument(body, authors, keywords, contentTopicId, fileId) ==
    [paperId |-> body.paperId,
     title |-> body.title,
     authors |-> authors,
     abstract |-> body.abstract,
     keywords |-> keywords,
     publisherId |-> body.publisherId,
     fee |-> OrElse(ParseFloat(body.fee), Num(10)),
     contentTopicId |-> contentTopicId,
     fileId |-> fileId,
     accessCount |-> 0,
     lastAccessedAt |-> 0]

----------------------------------------------------------------------------
(* Requests *)

PaperIdNames == <<"p1", "p2", "p3", "p4", "p5", "p6", "p7", "p8">>

PaperId(i) == Str(<<PaperIdNames[i]>>)

PaperIds == {PaperId(i) : i \in 1..NumPaperIds}

\* the example payload of the API for paper id
BaseBody(id) ==
    [paperId |-> id,
     title |-> Str(<<"Test">>),
     authors |-> Arr(<<Str(<<"A">>)>>),
     abstract |-> Str(<<"x">>),
     keywords |-> Undef,
     publisherId |-> Str(<<"pub1">>),
     fee |-> Num(5)]

\* the example payload with one required field missing or empty
IncompleteBodies(id) ==
    {[BaseBody(id) EXCEPT !.paperId = Undef],
     [BaseBody(id) EXCEPT !.title = Undef],
     [BaseBody(id) EXCEPT !.title = Str(<<>>)],
     [BaseBody(id) EXCEPT !.authors = Undef],
     [BaseBody(id) EXCEPT !.abstract = Undef],
     [BaseBody(id) EXCEPT !.publisherId = Undef]}

FeeValues == {Undef, Num(0), Num(-5), Str(<<"abc">>)}

AuthorsValues ==
    {Str(<<"A">>), Arr(<<Str(<<"A">>), Str(<<"B">>)>>), Arr(<<Str(<<>>)>>)}

\* the example payload with the fee varied
FeeBodies(id) == {[BaseBody(id) EXCEPT !.fee = v] : v \in FeeValues}

\* the example payload with the title or the authors varied
TextBodies(id) ==
    {[BaseBody(id) EXCEPT !.authors = v] : v \in AuthorsValues}
    \cup {[BaseBody(id) EXCEPT !.title = Str(<<"Other">>)]}

\* JSON bodies of POST /api/papers.  The handler treats every id alike, so the
\* fee is varied on one paper id in three and the text fields on the next.
CreateBodies ==
    IncompleteBodies(PaperId(1))
    \cup UNION {
        {BaseBody(PaperId(i))}
        \cup (IF i % 3 = 1 THEN FeeBodies(PaperId(i)) ELSE {})
        \cup (IF i % 3 = 2 THEN TextBodies(PaperId(i)) ELSE {})
        : i \in 1..NumPaperIds}

Json(status, body) == [status |-> status, body |-> body]

ErrorBody(message) == [error |-> TRUE, message |-> message]

----------------------------------------------------------------------------
(* Server start *)

\* conn.once('open'): GridFS storage and the upload middleware are installed
ConnOpen ==
    /\ proc # "exited"
    /\ ~locals.upload
    /\ locals' = [locals EXCEPT !.upload = TRUE]
    /\ UNCHANGED <<proc, env, papers, submitted, blobs, topics, req, res, docs, accessLog, agent, servers>>

\* mongoose buffers the collection's operations until the connection is open,
\* which is when the 'open' handler installs the upload middleware
ConnIsOpen == locals.upload

\* a lookup that settles for any registry topic the ledger has
ExistingMainTopic_AnyRegistry(lookupOk) ==
    IF env.MAIN_TOPIC_ID # 0 /\ env.MAIN_TOPIC_ID \in DOMAIN topics /\ lookupOk
    THEN env.MAIN_TOPIC_ID
    ELSE IF \E t \in DOMAIN topics : topics[t] = "registry"
    THEN CHOOSE t \in DOMAIN topics : topics[t] = "registry"
    ELSE 0

\* the topic getOrCreateMainTopic returns when it creates none, else 0
ExistingMainTopic(lookupOk) ==
    IF env.MAIN_TOPIC_ID # 0 /\ env.MAIN_TOPIC_ID \in DOMAIN topics /\ lookupOk
    THEN env.MAIN_TOPIC_ID
    ELSE 0

\* a registry topic created whether or not one was found
CreatedTopics_Always(existing) == <<"registry">>

\* the topics getOrCreateMainTopic creates: none when it returns the
\* configured topic, else one registry topic
CreatedTopics(existing) == IF existing # 0 THEN <<>> ELSE <<"registry">>

\* a failure that is not fatal when the topic cannot be created
StartupFails_ClientOnly(clientOk, existing, createOk) == ~clientOk

\* getClient throws, or getOrCreateMainTopic finds no topic and cannot create one
StartupFails(clientOk, existing, createOk) ==
    ~clientOk \/ (existing = 0 /\ ~createOk)

\* startServer: client, main topic, app.locals, listen; any failure exits
\* (req records what the ledger did)
StartServer ==
    /\ proc = "starting"
    /\ \E clientOk, lookupOk, createOk \in BOOLEAN :
        LET existing == ExistingMainTopic(lookupOk)
            topic == IF ~clientOk THEN "not asked"
                     ELSE IF existing # 0 THEN "found"
                     ELSE IF createOk THEN "created" ELSE "not created"
        IN  /\ req' = [op |-> "startServer", client |-> clientOk, topic |-> topic]
            /\ IF StartupFails(clientOk, existing, createOk)
               THEN /\ proc' = "exited"
                    /\ UNCHANGED <<locals, topics>>
               ELSE /\ proc' = "listening"
                    /\ topics' = topics \o CreatedTopics(existing)
                    /\ locals' = [locals EXCEPT
                           !.hederaClient = TRUE,
                           !.mainTopicId = IF existing # 0 THEN existing
                                           ELSE Len(topics) + 1]
    /\ UNCHANGED <<env, papers, submitted, blobs, res, docs, accessLog, agent, servers>>

\* mongoose.connect rejects: the catch handler exits the process, whether or
\* not startServer has got as far as listening
ConnFail ==
    /\ proc # "exited"
    /\ ~ConnIsOpen
    /\ proc' = "exited"
    /\ req' = [op |-> "mongoose.connect", connected |-> FALSE]
    /\ UNCHANGED <<locals, env, papers, submitted, blobs, topics, res, docs, accessLog, agent, servers>>

----------------------------------------------------------------------------
(* src/routes/paperRoutes.js *)

\* router.get('/')
ListPapers ==
    /\ proc = "listening"
    /\ ConnIsOpen
    /\ req' = [op |-> "GET /api/papers"]
    /\ res' = Json(200, papers)
    /\ UNCHANGED <<proc, locals, env, papers, submitted, blobs, topics, docs, accessLog, agent, servers>>

\* router.get('/:id')
GetPaper ==
    /\ proc = "listening"
    /\ ConnIsOpen
    /\ \E id \in PaperIds :
        LET k == FindOne(papers, id)
        IN  /\ req' = [op |-> "GET /api/papers/:id", id |-> id]
            /\ res' = IF k = 0 THEN Json(404, ErrorBody("Paper not found"))
                      ELSE Json(200, papers[k])
    /\ UNCHANGED <<proc, locals, env, papers, submitted, blobs, topics, docs, accessLog, agent, servers>>

\* authors wrapped without the Array.isArray test
CreateAuthors_AlwaysWrap(authors) == Arr(<<authors>>)

\* authors: Array.isArray(authors) ? authors : [authors]
CreateAuthors(authors) == IF IsArray(authors) THEN authors ELSE Arr(<<authors>>)

\* keywords: Array.isArray(keywords) ? keywords : (keywords ? [keywords] : [])
CreateKeywords(keywords) ==
    IF IsArray(keywords) THEN keywords
    ELSE IF Truthy(keywords) THEN Arr(<<keywords>>) ELSE Arr(<<>>)

\* the presence check without its title operand
MissingRequiredFields_NoTitle(body) ==
    \/ ~Truthy(body.paperId)
    \/ ~Truthy(body.authors)
    \/ ~Truthy(body.abstract)
    \/ ~Truthy(body.publisherId)

\* !paperId || !title || !authors || !abstract || !publisherId
MissingRequiredFields(body) ==
    \/ ~Truthy(body.paperId)
    \/ ~Truthy(body.title)
    \/ ~Truthy(body.authors)
    \/ ~Truthy(body.abstract)
    \/ ~Truthy(body.publisherId)

\* the document router.post('/') builds
CreatePaperDocument(body) ==
    NewPaperDocument(body, CreateAuthors(body.authors),
                     CreateKeywords(body.keywords), locals.mainTopicId, 0)

\* router.post('/')
PostPaper ==
    /\ proc = "listening"
    /\ \E body \in CreateBodies :
        /\ req' = [op |-> "POST /api/papers", body |-> body]
        /\ IF MissingRequiredFields(body)
           THEN /\ res' = Json(400, ErrorBody("Missing required fields"))
                /\ UNCHANGED <<papers, submitted>>
           ELSE LET newPaper == CreatePaperDocument(body)
                    saved == SaveOutcome(papers, newPaper)
                IN  /\ ConnIsOpen
                    /\ IF saved = "ok"
                       THEN /\ papers' = Append(papers, newPaper)
                            /\ submitted' = Append(submitted, body)
                            /\ res' = Json(201,
                                [success |-> TRUE,
                                 message |-> "Paper metadata created successfully",
                                 paper |-> [paperId |-> newPaper.paperId,
                                            title |-> newPaper.title]])
                       ELSE /\ res' = Json(500, ErrorBody(saved))
                            /\ UNCHANGED <<papers, submitted>>
    /\ UNCHANGED <<proc, locals, env, blobs, topics, docs, accessLog, agent, servers>>

----------------------------------------------------------------------------
(* POST /api/papers/upload *)

\* limits: { fileSize: 30 * 1024 * 1024 }
FileSizeLimit == 30 * 1024 * 1024

File(originalname, mimetype, size) ==
    [t |-> "file", originalname |-> originalname, mimetype |-> mimetype,
     size |-> size]

\* path.extname(name): the last chunk of a name that has one after its stem
ExtName(name) == IF Len(name) > 1 THEN name[Len(name)] ELSE ""

ToLowerCase(c) ==
    CASE c = ".PDF" -> ".pdf"
      [] c = "Test" -> "test"
      [] c = "Other" -> "other"
      [] OTHER -> c

\* /pdf|docx|txt|md|tex|csv|xlsx|zip/.test(s) on the strings the clients send
FiletypesTest(s) == s \in {"application/pdf", ".pdf", "text/plain", ".txt", ".md"}

\* the fileFilter callback of the upload middleware
FileFilter(file) ==
    FiletypesTest(file.mimetype)
        /\ FiletypesTest(ToLowerCase(ExtName(file.originalname)))

\* the upload middleware configured without limits.fileSize
MulterError_NoLimit(file) ==
    IF file.t = "undefined" THEN ""
    ELSE IF ~FiletypesTest(file.mimetype)
            \/ ~FiletypesTest(ToLowerCase(ExtName(file.originalname)))
    THEN "Invalid file type. Allowed types: PDF, DOCX, TXT, MD, TEX, CSV, XLSX, ZIP"
    ELSE ""

\* the error upload.single('file') hands to the handler, "" if none
MulterError(file) ==
    IF file.t = "undefined" THEN ""
    ELSE IF ~FileFilter(file)
    THEN "Invalid file type. Allowed types: PDF, DOCX, TXT, MD, TEX, CSV, XLSX, ZIP"
    ELSE IF file.size > FileSizeLimit THEN "File too large"
    ELSE ""

UploadFiles ==
    {Undef,
     File(<<"paper", ".pdf">>, "application/pdf", 1024),
     File(<<"paper", ".PDF">>, "application/pdf", FileSizeLimit),
     File(<<"paper", ".pdf">>, "application/pdf", FileSizeLimit + 1),
     File(<<"photo", ".png">>, "image/png", 1024),
     File(<<"paper">>, "application/pdf", 1024)}

\* multipart text fields arrive as strings; a repeated or bracketed field
\* (authors[]) arrives as an array under the bare name.  Forms are sent for two
\* paper ids in three: the fee is varied on the first, the lists on the second.
UploadBase(id) ==
    [paperId |-> id,
     title |-> Str(<<"Test">>),
     authors |-> Arr(<<Str(<<"A">>)>>),
     authorsBr |-> Undef,
     abstract |-> Str(<<"x">>),
     keywords |-> Undef,
     keywordsBr |-> Undef,
     publisherId |-> Str(<<"pub1">>),
     fee |-> Str(<<"5">>)]

UploadFeeValues == {Undef, Str(<<"0">>), Str(<<"-", "5">>)}

UploadBodies ==
    UNION {
        (IF i % 3 = 1
         THEN {UploadBase(PaperId(i)), [UploadBase(PaperId(i)) EXCEPT !.title = Undef]}
              \cup {[UploadBase(PaperId(i)) EXCEPT !.fee = v] : v \in UploadFeeValues}
         ELSE {})
        \cup (IF i % 3 = 2
              THEN {UploadBase(PaperId(i)),
                    [UploadBase(PaperId(i)) EXCEPT !.authors = Str(<<"A">>)],
                    [UploadBase(PaperId(i)) EXCEPT !.keywords = Str(<<"k">>)]}
              ELSE {})
        : i \in 1..NumPaperIds}

\* upload requests: every form with a small PDF, and the plain form of the
\* first paper id with every file
UploadRequests ==
    {<<body, File(<<"paper", ".pdf">>, "application/pdf", 1024)>> : body \in UploadBodies}
    \cup {<<UploadBase(PaperId(1)), file>> : file \in UploadFiles}

\* the authors (keywords) array the upload handler derives from the form
UploadList(field, bracketed) ==
    IF ~Truthy(field) THEN Arr(<<>>)
    ELSE IF IsArray(field) THEN field
    ELSE IF ~Truthy(bracketed) THEN Arr(<<>>)
    ELSE IF IsArray(bracketed) THEN bracketed
    ELSE Arr(<<bracketed>>)

\* the document router.post('/upload') builds
UploadPaperDocument(body, contentTopicId, fileId) ==
    NewPaperDocument(body, UploadList(body.authors, body.authorsBr),
                     UploadList(body.keywords, body.keywordsBr),
                     contentTopicId, fileId)

\* the storage engine has written the file when the handler's callback runs
StoresBlob(file) == file.t = "file" /\ MulterError(file) = ""

\* the file of a request that was not answered 201 deleted again
KeptBlobs_Compensated(stored, fileId, status) ==
    IF status = 201 THEN stored \cup {fileId} ELSE stored

\* the bucket when the handler has answered: the file the storage engine
\* wrote is in it whatever the answer, the handler deletes nothing
KeptBlobs(stored, fileId, status) == stored \cup {fileId}

\* the check left out
HederaNotInitialized_Unchecked == FALSE

\* !client || !mainTopicId
HederaNotInitialized == ~locals.hederaClient \/ locals.mainTopicId = 0

\* the handler of router.post('/upload')
UploadHandler ==
    /\ \E request \in UploadRequests :
        LET body == request[1]
            file == request[2]
            fileId == Cardinality(blobs) + 1
            contentTopicId == Len(topics) + 1
            newPaper == UploadPaperDocument(body, contentTopicId, fileId)
            saved == SaveOutcome(papers, newPaper)
        IN  /\ req' = [op |-> "POST /api/papers/upload", body |-> body, file |-> file]
            /\ IF ~locals.upload
               THEN /\ res' = Json(500, ErrorBody(
                        "File upload not available. Server may still be initializing."))
                    /\ UNCHANGED <<papers, submitted, blobs, topics>>
               ELSE IF MulterError(file) # ""
               THEN /\ res' = Json(400, ErrorBody(MulterError(file)))
                    /\ UNCHANGED <<papers, submitted, blobs, topics>>
               ELSE IF file.t = "undefined"
               THEN /\ res' = Json(400, ErrorBody("No file uploaded"))
                    /\ UNCHANGED <<papers, submitted, blobs, topics>>
               ELSE /\ Cardinality(blobs) < MaxBlobs
                    /\ IF HederaNotInitialized
                       THEN /\ res' = Json(500, ErrorBody(
                                "Server not properly initialized with Hedera client"))
                            /\ UNCHANGED <<papers, submitted, topics>>
                       ELSE \E ledgerOk \in BOOLEAN :
                            IF ~ledgerOk
                            THEN /\ res' = Json(500, ErrorBody("ledger transaction failed"))
                                 /\ UNCHANGED <<papers, submitted, topics>>
                            ELSE /\ topics' = Append(topics, "content")
                                 /\ IF saved = "ok"
                                    THEN /\ papers' = Append(papers, newPaper)
                                         /\ submitted' = Append(submitted, body)
                                         /\ res' = Json(201,
                                            [success |-> TRUE,
                                             message |-> "Paper uploaded successfully",
                                             paper |-> [paperId |-> newPaper.paperId,
                                                        title |-> newPaper.title,
                                                        contentTopicId |->
                                                            newPaper.contentTopicId]])
                                    ELSE /\ res' = Json(500, ErrorBody(saved))
                                         /\ UNCHANGED <<papers, submitted>>
                    /\ blobs' = KeptBlobs(blobs, fileId, res'.status)
    /\ UNCHANGED <<proc, locals, env, docs, accessLog, agent, servers>>

\* router.post('/upload'), reached through the listening server
Upload == proc = "listening" /\ UploadHandler

\* router.post('/upload'), reached through the exported app (module.exports =
\* app), which handles requests whether or not startServer has finished
AppUpload == proc # "exited" /\ UploadHandler

----------------------------------------------------------------------------
(* The HTTP API *)

NoRequest == [op |-> "none"]

\* no agent process runs
NoAgent == [pc |-> "off"]

NoResponse == Json(0, [error |-> FALSE, message |-> "none"])

Init ==
    /\ proc = "starting"
    /\ locals = [upload |-> FALSE, hederaClient |-> FALSE, mainTopicId |-> 0]
    /\ env = [MAIN_TOPIC_ID |-> 1, NODE_ENV |-> "development",
              OPENAI_API_KEY |-> FALSE]
    /\ papers = <<>>
    /\ submitted = <<>>
    /\ blobs = {}
    /\ topics = IF env.MAIN_TOPIC_ID = 0 THEN <<>> ELSE <<"registry">>
    /\ req = NoRequest
    /\ res = NoResponse
    /\ docs = <<>>
    /\ accessLog = <<>>
    /\ agent = NoAgent
    /\ servers = <<>>

Next ==
    \/ ConnOpen
    \/ ConnFail
    \/ StartServer
    \/ ListPapers
    \/ GetPaper
    \/ PostPaper
    \/ Upload

Spec == Init /\ [][Next]_vars

----------------------------------------------------------------------------
(* Text search over the index on title, abstract and keywords *)

RECURSIVE TrimEnd(_)
TrimEnd(s) ==
    IF s # <<>> /\ s[Len(s)] = " " THEN TrimEnd(SubSeq(s, 1, Len(s) - 1)) ELSE s

\* String.prototype.trim
Trim(s) == TrimEnd(SkipBlanks(s))

StopWords == {"the", "a", "of"}

\* the search terms of a string: its words, lower-cased, without stop words
\* (stemming is not modelled: the words used are their own stems)
Terms(s) == {ToLowerCase(s[i]) : i \in DOMAIN s} \ ({" "} \cup StopWords)

Hits(s, terms) == Cardinality({i \in DOMAIN s : ToLowerCase(s[i]) \in terms})

RECURSIVE ListHits(_, _)
ListHits(a, terms) ==
    IF a = <<>> THEN 0 ELSE Hits(Head(a).s, terms) + ListHits(Tail(a), terms)

\* textScore: grows with the indexed words that are search terms; only its
\* order and whether it is positive are used
TextScore(doc, terms) ==
    Hits(doc.title.s, terms) + Hits(doc.abstract.s, terms)
        + ListHits(doc.keywords.a, terms)

\* { $text: { $search: text } }: the indexes of the matching documents
TextMatches(coll, text) == {k \in DOMAIN coll : TextScore(coll[k], Terms(text)) > 0}

Min(a, b) == IF a < b THEN a ELSE b

\* a limit that keeps one document fewer
TopSets_OneFewer(coll, text, M, n) ==
    {K \in SUBSET M :
        /\ Cardinality(K) = Min(n - 1, Cardinality(M))
        /\ \A k \in K, j \in M \ K :
            TextScore(coll[k], Terms(text)) >= TextScore(coll[j], Terms(text))}

\* what .sort({ score }).limit(n) may keep of the matches M: n of them (all if
\* fewer), none scoring below a match left out; equal scores come in any order
TopSets(coll, text, M, n) ==
    {K \in SUBSET M :
        /\ Cardinality(K) = Min(n, Cardinality(M))
        /\ \A k \in K, j \in M \ K :
            TextScore(coll[k], Terms(text)) >= TextScore(coll[j], Terms(text))}

\* the documents K by descending score, equal scores in collection order
RECURSIVE SortedByScore(_, _, _)
SortedByScore(coll, text, K) ==
    IF K = {} THEN <<>>
    ELSE LET best == CHOOSE k \in K : \A j \in K :
                        \/ TextScore(coll[k], Terms(text)) > TextScore(coll[j], Terms(text))
                        \/ /\ TextScore(coll[k], Terms(text)) = TextScore(coll[j], Terms(text))
                           /\ k <= j
         IN  <<coll[best]>> \o SortedByScore(coll, text, K \ {best})

\* the test without the trim
BlankQuery_NoTrim(query) == ~Truthy(query)

\* !query || query.trim() === ''
BlankQuery(query) == ~Truthy(query) \/ Trim(query.s) = <<>>

\* PaperDocumentSchema.statics.searchPapers of src/models/PaperDocument.js
SearchPapersResult(coll, query) ==
    IF BlankQuery(query) THEN coll
    ELSE SortedByScore(coll, query.s, TextMatches(coll, query.s))

\* limit = 5, the default of the agent's searchPapers and searchRelevantPapers
AgentSearchLimit == 5

\* PaperDocumentSchema.statics.searchPapers of src/desci-agent.js, keeping K
AgentSearchPapersResult(coll, query, K) ==
    IF BlankQuery(query) THEN SubSeq(coll, 1, Min(AgentSearchLimit, Len(coll)))
    ELSE SortedByScore(coll, query.s, K)

\* the sets the agent's search may keep
AgentSearchKept(coll, query) ==
    IF BlankQuery(query) THEN {{}}
    ELSE TopSets(coll, query.s, TextMatches(coll, query.s), AgentSearchLimit)

Queries ==
    {Undef, Str(<<>>), Str(<<" ">>), Str(<<" ", " ">>), Str(<<"Test">>),
     Str(<<" ", "test", " ">>), Str(<<"nothing">>), Str(<<"the">>),
     Str(<<"x">>), Str(<<"Other", " ", "k">>)}

\* the value a function call returns
Returned(v) == [status |-> 0, body |-> v]

\* PaperDocument.searchPapers(query) on the server's model
SearchPapers ==
    /\ \E query \in Queries :
        /\ req' = [op |-> "searchPapers", query |-> query]
        /\ res' = Returned(SearchPapersResult(papers, query))
    /\ UNCHANGED <<proc, locals, env, papers, submitted, blobs, topics, docs, accessLog, agent, servers>>

\* searchRelevantPapers(query) of the agent
AgentSearchPapers ==
    /\ \E query \in Queries :
        \E K \in AgentSearchKept(papers, query) :
            /\ req' = [op |-> "agent searchPapers", query |-> query]
            /\ res' = Returned(AgentSearchPapersResult(papers, query, K))
    /\ UNCHANGED <<proc, locals, env, papers, submitted, blobs, topics, docs, accessLog, agent, servers>>

----------------------------------------------------------------------------
(* src/routes/chatRoutes.js *)

\* .limit(3) of the chat endpoint's search
ChatLimit == 3

Null == [t |-> "null"]

\* what openai.chat.completions.create does: it throws, or answers with a
\* content that is a string, possibly empty, or null
LlmOutcomes ==
    {[ok |-> FALSE],
     [ok |-> TRUE, content |-> Str(<<"An answer.">>)],
     [ok |-> TRUE, content |-> Str(<<>>)],
     [ok |-> TRUE, content |-> Null]}

LlmNotCalled == [ok |-> TRUE, content |-> Undef]

ChatMessages ==
    {Undef, Str(<<>>), Str(<<" ">>), Str(<<"Test">>), Str(<<"x">>),
     Str(<<"nothing">>), Str(<<"test", " ", "k">>)}

\* the reply built only when papers were found
FallbackReply_OnlyWhenFound(message, relevantPapers) ==
    IF relevantPapers = <<>> THEN Str(<<>>)
    ELSE Str(<<"I found papers that might be relevant to your query">>)

\* the reply built when no LLM client is configured
FallbackReply(message, relevantPapers) ==
    Str(<<"I received your message:">> \o message.s
        \o (IF relevantPapers # <<>>
            THEN <<"I found papers that might be relevant to your query">>
            ELSE <<"I couldn't find any specific papers related to your query.">>))

\* relevantPapers.map(paper => ({ paperId, title, authors, fee }))
PaperSummaries(relevantPapers) ==
    [i \in DOMAIN relevantPapers |->
        [paperId |-> relevantPapers[i].paperId,
         title |-> relevantPapers[i].title,
         authors |-> relevantPapers[i].authors,
         fee |-> relevantPapers[i].fee]]

\* router.post('/') of the chat routes
PostChat ==
    /\ proc = "listening"
    /\ \E message \in ChatMessages, searchOk \in BOOLEAN :
       \E llm \in (IF env.OPENAI_API_KEY THEN LlmOutcomes ELSE {LlmNotCalled}) :
        /\ req' = [op |-> "POST /api/chat", message |-> message,
                   searchOk |-> searchOk, llm |-> llm]
        /\ IF ~Truthy(message)
           THEN res' = Json(400, ErrorBody("No message provided"))
           ELSE \E K \in TopSets(papers, message.s,
                                 TextMatches(papers, message.s), ChatLimit) :
                LET relevantPapers ==
                        IF searchOk THEN SortedByScore(papers, message.s, K) ELSE <<>>
                IN  IF env.OPENAI_API_KEY /\ ~llm.ok
                    THEN res' = Json(500, ErrorBody("LLM request failed"))
                    ELSE res' = Json(200,
                            [reply |-> IF env.OPENAI_API_KEY THEN llm.content
                                       ELSE FallbackReply(message, relevantPapers),
                             papers |-> PaperSummaries(relevantPapers)])
    /\ UNCHANGED <<proc, locals, env, papers, submitted, blobs, topics, docs, accessLog, agent, servers>>

----------------------------------------------------------------------------
(* Searches over a stored collection *)

\* the body that created the i-th paper of the catalogue
CatalogBody(i) ==
    [BaseBody(PaperId(i)) EXCEPT
        !.title = IF i % 3 = 0 THEN Str(<<"Other">>) ELSE Str(<<"Test">>),
        !.keywords = IF i % 2 = 0 THEN Str(<<"k">>) ELSE Undef]

\* the catalogue's bodies with index in S, in index order
CatalogBodies(S) ==
    LET F[i \in 0..NumCatalog] ==
            IF i = 0 THEN <<>>
            ELSE IF i \in S THEN Append(F[i - 1], CatalogBody(i)) ELSE F[i - 1]
    IN  F[NumCatalog]

\* a server that is listening over a collection created through POST /api/papers
SearchInit ==
    /\ proc = "listening"
    /\ locals = [upload |-> TRUE, hederaClient |-> TRUE, mainTopicId |-> 1]
    /\ \E key \in BOOLEAN :
        env = [MAIN_TOPIC_ID |-> 1, NODE_ENV |-> "development", OPENAI_API_KEY |-> key]
    /\ \E S \in SUBSET (1..NumCatalog) :
        /\ submitted = CatalogBodies(S)
        /\ papers = [k \in DOMAIN submitted |-> CreatePaperDocument(submitted[k])]
    /\ blobs = {}
    /\ topics = <<"registry">>
    /\ req = NoRequest
    /\ res = NoResponse
    /\ docs = <<>>
    /\ accessLog = <<>>
    /\ agent = NoAgent
    /\ servers = <<>>

SearchNext ==
    \/ SearchPapers
    \/ AgentSearchPapers
    \/ PostChat

SpecSearch == SearchInit /\ [][SearchNext]_vars

----------------------------------------------------------------------------
(* The exported app during and after startup, in either mode *)

\* the message the error handling middleware of server.js sends
ErrorMiddlewareMessage(errMessage) ==
    IF env.NODE_ENV = "development" THEN errMessage ELSE "Server error occurred"

\* a request whose JSON body bodyParser.json cannot parse: the parser passes its
\* error to the error handling middleware
MalformedBody ==
    /\ proc # "exited"
    /\ req' = [op |-> "malformed body"]
    /\ res' = Json(500, ErrorBody(ErrorMiddlewareMessage("Unexpected token in JSON")))
    /\ UNCHANGED <<proc, locals, env, papers, submitted, blobs, topics, docs, accessLog, agent, servers>>

\* module load, with or without an LLM key, in development or production mode
AppInit ==
    /\ proc = "starting"
    /\ locals = [upload |-> FALSE, hederaClient |-> FALSE, mainTopicId |-> 0]
    /\ \E mode \in {"development", "production"}, key \in BOOLEAN :
        env = [MAIN_TOPIC_ID |-> 1, NODE_ENV |-> mode, OPENAI_API_KEY |-> key]
    /\ papers = <<>>
    /\ submitted = <<>>
    /\ blobs = {}
    /\ topics = <<"registry">>
    /\ req = NoRequest
    /\ res = NoResponse
    /\ docs = <<>>
    /\ accessLog = <<>>
    /\ agent = NoAgent
    /\ servers = <<>>

AppNext ==
    \/ ConnOpen
    \/ ConnFail
    \/ StartServer
    \/ AppUpload
    \/ PostChat
    \/ MalformedBody

SpecApp == AppInit /\ [][AppNext]_vars

----------------------------------------------------------------------------
(* PaperDocumentSchema.methods.recordAccess, src/models/PaperDocument.js *)

DocHandles == 1..NumHandles

NoDoc == [state |-> "none"]

\* the calls whose save had completed
Completed(log) == {c \in DOMAIN log : log[c].done}

\* PaperDocument.findOne({ paperId }): a caller gets its own copy of the stored
\* document ('seen' is history: the calls already saved when it was read)
Fetch(h) ==
    /\ proc = "listening" /\ ConnIsOpen
    /\ docs[h] = NoDoc
    /\ \E id \in PaperIds :
        LET k == FindOne(papers, id)
        IN  /\ k # 0
            /\ docs' = [docs EXCEPT ![h] =
                    [state |-> "held", k |-> k, call |-> 0,
                     accessCount |-> papers[k].accessCount,
                     lastAccessedAt |-> papers[k].lastAccessedAt,
                     seen |-> Completed(accessLog)]]
    /\ UNCHANGED <<proc, locals, env, papers, submitted, blobs, topics, req, res, accessLog, agent, servers>>

\* the increment computed and thrown away
AccessIncrement_Discarded(n) == n

\* this.accessCount++
AccessIncrement(n) == n + 1

\* recordAccess up to the call of save(): the instance's own fields change;
\* new Date() is the number of the call
RecordAccess(h) ==
    /\ docs[h] # NoDoc
    /\ docs[h].state = "held"
    /\ Len(accessLog) < MaxCalls
    /\ docs' = [docs EXCEPT ![h].accessCount = AccessIncrement(@),
                            ![h].lastAccessedAt = Len(accessLog) + 1,
                            ![h].call = Len(accessLog) + 1,
                            ![h].state = "saving"]
    /\ accessLog' = Append(accessLog,
            [h |-> h, k |-> docs[h].k,
             before |-> papers[docs[h].k].accessCount,
             began |-> Completed(accessLog),
             seen |-> docs[h].seen,
             done |-> FALSE, ok |-> FALSE, after |-> 0])
    /\ UNCHANGED <<proc, locals, env, papers, submitted, blobs, topics, req, res, agent, servers>>

\* the stored count incremented in place, whatever the instance holds
SavedAccessCount_InPlace(stored, own) == stored + 1

\* the accessCount save() stores: the modified path is $set to the instance's
\* own value, the stored value is not read
SavedAccessCount(stored, own) == own

\* the save() recordAccess returns completes: it writes the instance's modified
\* fields over the stored ones, or fails and writes nothing
SaveDone(h) ==
    /\ docs[h] # NoDoc
    /\ docs[h].state = "saving"
    /\ \E ok \in BOOLEAN :
        /\ papers' = IF ok
                     THEN [papers EXCEPT
                             ![docs[h].k].accessCount =
                                    SavedAccessCount(@, docs[h].accessCount),
                             ![docs[h].k].lastAccessedAt = docs[h].lastAccessedAt]
                     ELSE papers
        /\ accessLog' = [accessLog EXCEPT
                ![docs[h].call].done = TRUE,
                ![docs[h].call].ok = ok,
                ![docs[h].call].after = papers'[docs[h].k].accessCount]
    /\ docs' = [docs EXCEPT ![h].state = "held"]
    /\ UNCHANGED <<proc, locals, env, submitted, blobs, topics, req, res, agent, servers>>

\* a listening server over two stored papers that were read before
AccessInit ==
    /\ proc = "listening"
    /\ locals = [upload |-> TRUE, hederaClient |-> TRUE, mainTopicId |-> 1]
    /\ env = [MAIN_TOPIC_ID |-> 1, NODE_ENV |-> "development", OPENAI_API_KEY |-> FALSE]
    /\ submitted = CatalogBodies({1, 2})
    /\ \E n \in 0..MaxOriginalCount :
        papers = [k \in DOMAIN submitted |->
                    [CreatePaperDocument(submitted[k]) EXCEPT !.accessCount = n]]
    /\ blobs = {}
    /\ topics = <<"registry">>
    /\ req = NoRequest
    /\ res = NoResponse
    /\ docs = [h \in DocHandles |-> NoDoc]
    /\ accessLog = <<>>
    /\ agent = NoAgent
    /\ servers = <<>>

AccessNext ==
    \E h \in DocHandles :
        \/ Fetch(h)
        \/ RecordAccess(h)
        \/ SaveDone(h)

SpecAccess == AccessInit /\ [][AccessNext]_vars

----------------------------------------------------------------------------
(* src/desci-agent.js: the chat session *)

\* calculateQuote(platformFeePercent = 5)
PlatformFeePercent == 5

\* the quote of a session that none was computed for: a nested path of a
\* mongoose document reads as an object whether or not anything was assigned
\* to it, and its array path as an empty array
UnsetQuote ==
    [t |-> "object", papersCost |-> Undef, platformFee |-> Undef,
     totalCost |-> Undef, papers |-> <<>>]

\* new Chat({ sessionId, messages: [] })
NewChat ==
    [messages |-> <<>>, relatedPapers |-> <<>>, paymentStatus |-> "pending",
     quote |-> UnsetQuote]

\* ChatSchema.methods.addMessage, before its save
AddMessage(chat, role, content) ==
    [chat EXCEPT !.messages = Append(@, [role |-> role, content |-> content])]

\* ChatSchema.methods.setRelatedPapers, before its save
SetRelatedPapers(chat, found) ==
    [chat EXCEPT !.relatedPapers =
        [i \in DOMAIN found |->
            [paperId |-> found[i].paperId, title |-> found[i].title,
             fee |-> found[i].fee, contentTopicId |-> found[i].contentTopicId]]]

\* relatedPapers.reduce((total, paper) => total + paper.fee, 0)
RECURSIVE SumFees(_)
SumFees(related) ==
    IF related = <<>> THEN 0 ELSE Head(related).fee.n + SumFees(Tail(related))

\* ChatSchema.methods.calculateQuote, before its save; the amounts of a quote
\* are kept in hundredths of a token, in which the platform fee of a whole
\* number of tokens is a whole number
CalculateQuote(chat) ==
    LET papersCost == 100 * SumFees(chat.relatedPapers)
        platformFee == (papersCost * PlatformFeePercent) \div 100
    IN  [chat EXCEPT !.quote =
            [t |-> "object",
             papersCost |-> Num(papersCost),
             platformFee |-> Num(platformFee),
             totalCost |-> Num(papersCost + platformFee),
             papers |-> [i \in DOMAIN chat.relatedPapers |->
                            [paperId |-> chat.relatedPapers[i].paperId,
                             title |-> chat.relatedPapers[i].title,
                             fee |-> chat.relatedPapers[i].fee]]]]

\* the status left as it was
SetPaid_NotAssigned(chat) == chat

\* ChatSchema.methods.setPaid, before its save
SetPaid(chat) == [chat EXCEPT !.paymentStatus = "paid"]

----------------------------------------------------------------------------
(* src/desci-agent.js: runAgent and the command loop *)

ServerVars ==
    <<proc, locals, env, papers, submitted, blobs, topics, req, res, docs, accessLog,
      servers>>

NoInput == [cmd |-> "none", arg |-> Undef]

SearchArgs == {Str(<<>>), Str(<<" ">>), Str(<<" ", "Test">>), Str(<<" ", "Other">>)}

Questions == {Str(<<"Test">>), Str(<<"nothing">>)}

\* runAgent up to the first prompt: connect, initialise the client, save a new
\* session; a failure exits the process (pending counts the calls of
\* rl.question whose callback has not run)
RunAgent ==
    /\ agent.pc = "init"
    /\ \E ok \in BOOLEAN :
        agent' = [agent EXCEPT !.pc = IF ok THEN "prompt" ELSE "exited",
                               !.pending = IF ok THEN 1 ELSE 0]
    /\ UNCHANGED ServerVars

\* the agent waits at its prompt
Prompted == agent.pc = "prompt" /\ agent.pending > 0 /\ agent.commands < MaxCommands

\* console.error("Error:", error) of the callback's catch
Threw == "Error:"

\* the lines with which a refused command leaves the callback
Refusals ==
    {"Please provide a search query.",
     "No papers selected yet. Please search for papers first.",
     "No quote available. Please get a quote first."}

\* a refused command going on to the end of the callback after its own call
PromptsIssued_FallThrough(said) == IF said \in Refusals THEN 2 ELSE 1

\* the calls of askQuestion a handler makes on its way out: a refused command
\* returns with its call, every other way out reaches the call at the end of
\* the callback
PromptsIssued(said) == 1

\* the callback of rl.question has run to its end, or to its catch when the
\* handler threw, and askQuestion was called again; said is the last line the
\* handler wrote to the console (faulted is history: an await has rejected)
Handled(input, chat, said) ==
    [agent EXCEPT !.pc = "prompt", !.input = input, !.chat = chat,
                  !.said = said, !.commands = @ + 1,
                  !.pending = @ - 1 + PromptsIssued(said),
                  !.faulted = @ \/ said \in {Threw, "Payment failed. Please try again."}]

\* /exit
ExitCmd ==
    /\ Prompted
    /\ agent' = [agent EXCEPT !.pc = "exited", !.input = [cmd |-> "/exit", arg |-> Undef],
                              !.commands = @ + 1, !.pending = @ - 1]
    /\ UNCHANGED ServerVars

\* 'Found ${papers.length} relevant papers.'
FoundMessage(found) == Str(<<"Found", ToString(Len(found)), "relevant papers.">>)

\* /search [query]: each await may reject, which ends the handler in its catch
\* with the session as it was changed so far
SearchCmd ==
    /\ Prompted
    /\ \E arg \in SearchArgs :
        LET input == [cmd |-> "/search", arg |-> arg]
            query == Str(Trim(arg.s))
        IN  IF ~Truthy(query)
            THEN agent' = Handled(input, agent.chat, "Please provide a search query.")
            ELSE \E K \in AgentSearchKept(papers, query) :
                 LET found == AgentSearchPapersResult(papers, query, K)
                     s1 == SetRelatedPapers(agent.chat, found)
                     s2 == AddMessage(s1, "user", query)
                     s3 == AddMessage(s2, "system", FoundMessage(found))
                 IN  \E out \in {<<agent.chat, Threw>>, <<s1, Threw>>, <<s2, Threw>>,
                                 <<s3, Threw>>, <<s3, "Relevant papers:">>} :
                        agent' = Handled(input, out[1], out[2])
    /\ UNCHANGED ServerVars

\* no relatedPapers taken for none selected
NoPapersSelected_Never(chat) == FALSE

\* !chatSession.relatedPapers || chatSession.relatedPapers.length === 0
NoPapersSelected(chat) == chat.relatedPapers = <<>>

\* 'Quote generated: ${quote.totalCost} tokens total.'
QuoteMessage(chat) ==
    Str(<<"Quote generated:", ToString(chat.quote.totalCost.n), "hundredths of a token total.">>)

\* /quote
QuoteCmd ==
    /\ Prompted
    /\ LET input == [cmd |-> "/quote", arg |-> Undef]
       IN  IF NoPapersSelected(agent.chat)
           THEN agent' = Handled(input, agent.chat,
                                 "No papers selected yet. Please search for papers first.")
           ELSE LET s1 == CalculateQuote(agent.chat)
                    s2 == AddMessage(s1, "system", QuoteMessage(s1))
                IN  \E out \in {<<s1, Threw>>, <<s2, Threw>>, <<s2, "Papers included:">>} :
                        agent' = Handled(input, out[1], out[2])
    /\ UNCHANGED ServerVars

\* !chatSession.quote
NoQuote(chat) == ~Truthy(chat.quote)

\* the status not looked at
AlreadyPaid_Unchecked(chat) == FALSE

\* chatSession.paymentStatus === 'paid'
AlreadyPaid(chat) == chat.paymentStatus = "paid"

PaperIdsOf(related) == {related[i].paperId : i \in DOMAIN related}

\* a transfer of each related paper's fee to its publisher
PaymentTransactions_Transfers(chat) ==
    [i \in DOMAIN chat.relatedPapers |->
        [type |-> "TransferTransaction", paperId |-> chat.relatedPapers[i].paperId]]

\* the transactions processPayment submits to the ledger through the client
\* before it marks the session paid: none ("For this demo, we'll just simulate
\* payment success")
PaymentTransactions(chat) == <<>>

\* /pay up to the result of processPayment: setPaid assigns the status and
\* saves; when the save rejects processPayment returns false (ledger is what
\* the agent's client has submitted to the network; the payment event
\* records the total of the quote that was paid)
PayCmd ==
    /\ Prompted
    /\ LET input == [cmd |-> "/pay", arg |-> Undef]
           chat == agent.chat
       IN  IF NoQuote(chat)
           THEN agent' = Handled(input, chat, "No quote available. Please get a quote first.")
           ELSE IF AlreadyPaid(chat)
           THEN agent' = Handled(input, chat, "You've already paid for these papers.")
           ELSE \E saved \in BOOLEAN :
                IF saved
                THEN agent' = [agent EXCEPT
                        !.pc = "retrieving", !.input = input,
                        !.chat = SetPaid(chat),
                        !.said = "Payment processed successfully!",
                        !.commands = @ + 1,
                        !.pending = @ - 1,
                        !.cache = @ \cup PaperIdsOf(chat.relatedPapers),
                        !.ledger = @ \o PaymentTransactions(chat),
                        !.events = Append(@, [kind |-> "payment", status |-> "paid",
                                              what |-> chat.quote.totalCost])]
                ELSE agent' = [Handled(input, SetPaid(chat),
                                       "Payment failed. Please try again.")
                                 EXCEPT !.ledger = @ \o PaymentTransactions(chat)]
    /\ UNCHANGED ServerVars

\* what the /pay step gets for one related paper: the stored file's bytes when
\* the paper has a file and the download succeeds
PaperContent(related, readOk) ==
    LET k == FindOne(papers, related.paperId)
    IN  IF k = 0 \/ papers[k].fileId = 0 THEN Str(<<"Content not available">>)
        ELSE IF ~readOk THEN Str(<<"Error retrieving content">>)
        ELSE [t |-> "content", fileId |-> papers[k].fileId]

\* the files getPaperContent opens for the related papers
FilesOpened(related) ==
    {i \in DOMAIN related :
        LET k == FindOne(papers, related[i].paperId)
        IN  k # 0 /\ papers[k].fileId # 0}

\* the download events of the related papers, in order
RECURSIVE ReadEvents(_, _, _)
ReadEvents(related, opened, status) ==
    IF related = <<>> THEN <<>>
    ELSE (IF Len(related) \in opened
          THEN ReadEvents(SubSeq(related, 1, Len(related) - 1), opened, status)
                \o <<[kind |-> "read", status |-> status,
                      what |-> related[Len(related)].paperId]>>
          ELSE ReadEvents(SubSeq(related, 1, Len(related) - 1), opened, status))

\* /pay after a successful payment: the content of every related paper is
\* fetched (a failing download is replaced by a text), then the papers are
\* looked up again, which may reject
RetrieveContents ==
    /\ agent.pc = "retrieving"
    /\ \E readOk, lookupOk \in BOOLEAN :
        LET related == agent.chat.relatedPapers
            contents == [i \in DOMAIN related |-> PaperContent(related[i], readOk)]
        IN  agent' = [agent EXCEPT
                !.pc = IF lookupOk THEN "responding" ELSE "prompt",
                !.said = IF lookupOk THEN "Generating research response..." ELSE Threw,
                !.pending = IF lookupOk THEN @ ELSE @ + PromptsIssued(Threw),
                !.faulted = @ \/ ~lookupOk \/ (~readOk /\ FilesOpened(related) # {}),
                !.contents = IF lookupOk THEN contents ELSE <<>>,
                !.events = @ \o ReadEvents(related, FilesOpened(related),
                                           agent.chat.paymentStatus)]
    /\ UNCHANGED ServerVars

\* /pay to its end: generateResearchResponse calls the LLM, or answers with an
\* apology when the call fails; the answer is added to the session
Respond ==
    /\ agent.pc = "responding"
    /\ \E llmOk, saved \in BOOLEAN :
        LET response == IF llmOk THEN Str(<<"Research findings">>)
                        ELSE Str(<<"I'm sorry, I couldn't generate a research response due to an error.">>)
        IN  agent' = [agent EXCEPT
                !.pc = "prompt",
                !.said = IF saved THEN "=== RESEARCH FINDINGS ===" ELSE Threw,
                !.pending = @ + PromptsIssued(IF saved THEN "=== RESEARCH FINDINGS ===" ELSE Threw),
                !.faulted = @ \/ ~llmOk \/ ~saved,
                !.contents = <<>>,
                !.chat = AddMessage(@, "assistant", response),
                !.events = Append(@, [kind |-> "llm",
                                      status |-> agent.chat.paymentStatus,
                                      what |-> Arr(agent.contents)])]
    /\ UNCHANGED ServerVars

\* any other input is a research question
QuestionCmd ==
    /\ Prompted
    /\ \E arg \in Questions :
       \E K \in AgentSearchKept(papers, arg) :
        LET input == [cmd |-> "question", arg |-> arg]
            found == AgentSearchPapersResult(papers, arg, K)
            s1 == AddMessage(agent.chat, "user", arg)
            s2 == SetRelatedPapers(s1, found)
            s3 == CalculateQuote(s2)
        IN  \E out \in {<<s1, Threw>>, <<s2, Threw>>, <<s3, Threw>>,
                        <<s3, "Use /quote to see details or /pay to purchase access.">>} :
                agent' = Handled(input, out[1], out[2])
    /\ UNCHANGED ServerVars

\* the i-th paper of the store the agent works on
StoredPaper(i) ==
    [CreatePaperDocument(CatalogBody(i)) EXCEPT
        !.fee = Num(5 * i),
        !.contentTopicId = i + 1,
        !.fileId = IF i % 2 = 1 THEN i ELSE 0]

\* an agent started over a store of papers, every other one with a file
AgentInit ==
    /\ proc = "listening"
    /\ locals = [upload |-> TRUE, hederaClient |-> TRUE, mainTopicId |-> 1]
    /\ env = [MAIN_TOPIC_ID |-> 1, NODE_ENV |-> "development", OPENAI_API_KEY |-> TRUE]
    /\ submitted = [i \in 1..NumStored |-> CatalogBody(i)]
    /\ papers = [i \in 1..NumStored |-> StoredPaper(i)]
    /\ blobs = {i \in 1..NumStored : i % 2 = 1}
    /\ topics = [i \in 1..(NumStored + 1) |-> IF i = 1 THEN "registry" ELSE "content"]
    /\ req = NoRequest
    /\ res = NoResponse
    /\ docs = <<>>
    /\ accessLog = <<>>
    /\ agent = [pc |-> "init", chat |-> NewChat, cache |-> {}, events |-> <<>>,
                contents |-> <<>>, commands |-> 0, input |-> NoInput, said |-> "",
                faulted |-> FALSE, ledger |-> <<>>, pending |-> 0]
    /\ servers = <<>>

AgentNext ==
    \/ RunAgent
    \/ ExitCmd
    \/ SearchCmd
    \/ QuoteCmd
    \/ PayCmd
    \/ RetrieveContents
    \/ Respond
    \/ QuestionCmd

SpecAgent == AgentInit /\ [][AgentNext]_vars

\* the agent when every promise a /pay awaits settles: the downloads and
\* lookups of the content retrieval, and the LLM call and the save after it
SpecAgentFair ==
    /\ SpecAgent
    /\ WF_vars(RetrieveContents)
    /\ WF_vars(Respond)

----------------------------------------------------------------------------
(* src/server.js: startServer in several processes on one ledger *)

ServerIds == 1..NumServers

\* a process whose startServer has not begun; asked is what the ledger
\* answered to its TopicInfoQuery, racing the processes that were about to
\* create a topic when this one created its own (both history)
NewServer ==
    [pc |-> "starting", hederaClient |-> FALSE, mainTopicId |-> 0,
     asked |-> "nothing", created |-> 0, racing |-> {}]

\* const client = await getClient()
GetClient(p) ==
    /\ servers[p].pc = "starting"
    /\ \E clientOk \in BOOLEAN :
        servers' = [servers EXCEPT ![p].pc = IF clientOk THEN "client" ELSE "exited"]
    /\ UNCHANGED <<proc, locals, env, papers, submitted, blobs, topics, req, res, docs,
                   accessLog, agent>>

\* getOrCreateMainTopic up to its TopicCreateTransaction: with a topic to
\* reuse startServer stores it and listens
LookupMainTopic(p) ==
    /\ servers[p].pc = "client"
    /\ \E lookupOk \in BOOLEAN :
        LET existing == ExistingMainTopic(lookupOk)
            asked == IF env.MAIN_TOPIC_ID = 0 THEN "nothing"
                     ELSE IF env.MAIN_TOPIC_ID \in DOMAIN topics /\ lookupOk THEN "found"
                     ELSE "not found"
        IN  servers' = [servers EXCEPT
                ![p].asked = asked,
                ![p].pc = IF existing # 0 THEN "listening" ELSE "creating",
                ![p].hederaClient = existing # 0,
                ![p].mainTopicId = existing]
    /\ UNCHANGED <<proc, locals, env, papers, submitted, blobs, topics, req, res, docs,
                   accessLog, agent>>

\* the TopicCreateTransaction and its receipt: the ledger gives the new topic
\* the next id; startServer stores it and listens, or exits when it failed
CreateMainTopic(p) ==
    /\ servers[p].pc = "creating"
    /\ \E createOk \in BOOLEAN :
        IF createOk
        THEN /\ topics' = Append(topics, "registry")
             /\ servers' = [servers EXCEPT
                    ![p].pc = "listening",
                    ![p].hederaClient = TRUE,
                    ![p].mainTopicId = Len(topics) + 1,
                    ![p].created = Len(topics) + 1,
                    ![p].racing = {q \in ServerIds \ {p} : servers[q].pc = "creating"}]
        ELSE /\ servers' = [servers EXCEPT ![p].pc = "exited"]
             /\ UNCHANGED topics
    /\ UNCHANGED <<proc, locals, env, papers, submitted, blobs, req, res, docs,
                   accessLog, agent>>

\* processes not yet started on a ledger that has a registry topic and a
\* content topic, with MAIN_TOPIC_ID unset or set to one of them
StartInit ==
    /\ proc = "starting"
    /\ locals = [upload |-> FALSE, hederaClient |-> FALSE, mainTopicId |-> 0]
    /\ \E id \in 0..2 :
        env = [MAIN_TOPIC_ID |-> id, NODE_ENV |-> "development", OPENAI_API_KEY |-> FALSE]
    /\ papers = <<>>
    /\ submitted = <<>>
    /\ blobs = {}
    /\ topics = <<"registry", "content">>
    /\ req = NoRequest
    /\ res = NoResponse
    /\ docs = <<>>
    /\ accessLog = <<>>
    /\ agent = NoAgent
    /\ servers = [p \in ServerIds |-> NewServer]

StartNext ==
    \E p \in ServerIds :
        \/ GetClient(p)
        \/ LookupMainTopic(p)
        \/ CreateMainTopic(p)

SpecStart == StartInit /\ [][StartNext]_vars

----------------------------------------------------------------------------
(* Properties of the HTTP API *)

CreateOp == "POST /api/papers"
UploadOp == "POST /api/papers/upload"
GetOp == "GET /api/papers/:id"

\* a step in which the server handles a request of kind op
Handles(op) == req'.op = op /\ UNCHANGED <<proc, locals>>

\* papers[k] was created by the metadata endpoint
MetadataOnly(k) == papers[k].fileId = 0

Stored(id) == \E k \in DOMAIN papers : papers[k].paperId = id

AcceptablePayload(body) ==
    /\ RequiredString(body.paperId)
    /\ RequiredString(body.title)
    /\ RequiredString(body.abstract)
    /\ RequiredString(body.publisherId)
    /\ \/ RequiredString(body.authors)
       \/ /\ IsArray(body.authors)
          /\ \A i \in DOMAIN body.authors.a : RequiredString(body.authors.a[i])

\* the authors array GET returns for submitted authors
AuthorsAsList(authors) == IF authors.t = "arr" THEN authors ELSE Arr(<<authors>>)

C1_Response ==
    (req.op = CreateOp /\ res.status = 201)
        => /\ res.body.paper.paperId = req.body.paperId
           /\ Stored(req.body.paperId)

C1_Fetch ==
    \A k \in DOMAIN papers :
        (req.op = GetOp /\ req.id = papers[k].paperId /\ MetadataOnly(k))
            => /\ res.status = 200
               /\ res.body.paperId = req.id
               /\ res.body.title = submitted[k].title
               /\ res.body.authors = AuthorsAsList(submitted[k].authors)
               /\ res.body.abstract = submitted[k].abstract

C1_Accepts ==
    (Handles(CreateOp) /\ AcceptablePayload(req'.body) /\ ~Stored(req'.body.paperId))
        => /\ res'.status = 201
           /\ Len(papers') = Len(papers) + 1

RequiredFields == {"paperId", "title", "authors", "abstract", "publisherId"}

Lacks(body) == \E f \in RequiredFields : body[f] = Undef

\* C2: a POST /api/papers payload lacking paperId, title, authors, abstract or
\* publisherId is answered with a 4xx status and leaves the collection as it was.
C2_MissingFieldRejected ==
    [][(Handles(CreateOp) /\ Lacks(req'.body))
        => (res'.status \in 400..499 /\ papers' = papers)]_vars

\* a payload without title was answered 400 while a paper was stored
C2_Witness ==
    /\ req.op = CreateOp
    /\ req.body.title = Undef
    /\ res.status = 400
    /\ papers # <<>>

UniquePaperIds ==
    \A j, k \in DOMAIN papers : papers[j].paperId = papers[k].paperId => j = k

ReusesStoredId ==
    /\ Handles(CreateOp) \/ Handles(UploadOp)
    /\ Stored(req'.body.paperId)

\* C3: no two persisted papers share a paperId; a create or an upload that
\* reuses a stored paperId fails and leaves the collection as it was.
C3_PaperIdUnique ==
    /\ []UniquePaperIds
    /\ [][ReusesStoredId => (res'.status >= 400 /\ papers' = papers)]_vars

\* an upload that passed the file checks and the ledger was refused by the index
C3_Witness ==
    /\ req.op = UploadOp
    /\ res.status = 500
    /\ res.body.message = "E11000 duplicate key error"
    /\ Stored(req.body.paperId)

Oversized(file) == file.t = "file" /\ file.size > FileSizeLimit

\* C5: an upload of a file larger than 30 MB gets an error response, and the
\* request creates no paper record and no content topic.
C5_OversizedUploadRejected ==
    [][(Handles(UploadOp) /\ Oversized(req'.file))
        => (res'.status >= 400 /\ papers' = papers /\ topics' = topics)]_vars

\* the size limit itself rejected an upload
C5_Witness ==
    /\ req.op = UploadOp
    /\ Oversized(req.file)
    /\ res.status = 400
    /\ res.body.message = "File too large"

\* C8 as claimed: a paper created with a numeric fee f >= 0 is stored with fee f
\* and fetched with fee f.
C8_AsClaimed ==
    \A k \in DOMAIN papers :
        (MetadataOnly(k) /\ submitted[k].fee.t = "num" /\ submitted[k].fee.n >= 0)
            => /\ papers[k].fee = submitted[k].fee
               /\ (req.op = GetOp /\ req.id = papers[k].paperId)
                    => res.body.fee = submitted[k].fee

\* C9 as claimed: every persisted paper has a fee that is a number >= 0.
C9_AsClaimed ==
    \A k \in DOMAIN papers : papers[k].fee.t = "num" /\ papers[k].fee.n >= 0

\* C11 as claimed: every GET /api/papers/:id that returns the paper adds one to
\* that paper's stored accessCount (so n reads in a row add n).
C11_AsClaimed ==
    [][(Handles(GetOp) /\ res'.status = 200) =>
        LET k == FindOne(papers, req'.id)
        IN  papers'[k].accessCount = papers[k].accessCount + 1]_vars

\* the upload middleware, the ledger client and the main topic id are in app.locals
UpstreamReady == locals.upload /\ locals.hederaClient /\ locals.mainTopicId # 0

UploadLacks(body) ==
    \E f \in {"paperId", "title", "abstract", "publisherId"} : body[f] = Undef

\* C12 as claimed: an upload whose metadata lacks paperId, title, abstract or
\* publisherId, handled by a fully started server, is answered with a 4xx
\* status and not with a 5xx status.
C12_AsClaimed ==
    [][(Handles(UploadOp) /\ UpstreamReady /\ UploadLacks(req'.body))
        => res'.status \in 400..499]_vars

----------------------------------------------------------------------------
(* Properties of the app during startup and in production mode *)

\* the upload middleware is not installed, or the ledger client or the main
\* topic id is not in app.locals
UpstreamAbsent == ~locals.upload \/ ~locals.hederaClient \/ locals.mainTopicId = 0

\* C13 as claimed: an upload handled while upstream state is absent is answered
\* with a 5xx status and creates no content topic and no paper record.
C13_AsClaimed ==
    [][(Handles(UploadOp) /\ UpstreamAbsent)
        => (res'.status \in 500..599 /\ topics' = topics /\ papers' = papers)]_vars

\* the upload middleware lets the request's file through
FileAccepted(file) ==
    /\ file.t = "file"
    /\ file.size <= FileSizeLimit
    /\ FileFilter(file)

\* C13 (amended): an upload handled while upstream state is absent creates no
\* content topic and no paper record, and is answered with a 5xx status when
\* the upload middleware is not installed, or when the ledger client or main
\* topic id is missing and the request carries a file the middleware accepts;
\* with the middleware installed and a file that is missing or refused (wrong
\* type, too large) it is answered 400 whatever the ledger state.
C13_UpstreamAbsent ==
    [][(Handles(UploadOp) /\ UpstreamAbsent)
        => /\ topics' = topics
           /\ papers' = papers
           /\ res'.status = IF ~locals.upload \/ FileAccepted(req'.file)
                            THEN 500 ELSE 400]_vars

\* with the middleware installed and no ledger client, an accepted file was
\* answered 500 and nothing but the file was stored
C13_Witness ==
    /\ req.op = UploadOp
    /\ proc = "starting"
    /\ locals.upload /\ ~locals.hederaClient
    /\ FileAccepted(req.file)
    /\ res.status = 500
    /\ res.body.message = "Server not properly initialized with Hedera client"
    /\ topics = <<"registry">>
    /\ papers = <<>>

\* the messages of the errors thrown by the store, the ledger, the LLM client
\* and the body parser
UpstreamErrorMessages ==
    {"PaperDocument validation failed", "E11000 duplicate key error",
     "ledger transaction failed", "LLM request failed", "Unexpected token in JSON"}

\* C14 as claimed: in production mode no 5xx response body carries an upstream
\* error's message verbatim.
C14_AsClaimed ==
    (env.NODE_ENV = "production" /\ res.status \in 500..599)
        => res.body.message \notin UpstreamErrorMessages

\* the step is a startup step that failed: the store connection, the ledger
\* client, or the main topic
StartupFailure ==
    /\ req' # req
    /\ \/ req'.op = "mongoose.connect" /\ ~req'.connected
       \/ req'.op = "startServer" /\ (~req'.client \/ req'.topic = "not created")

\* C15: a startup failure (store connection, ledger client, main topic) ends
\* the process, after which nothing happens, and whenever the server listens
\* the ledger client and the main topic id are in app.locals.
C15_StartupFatal ==
    /\ [](proc = "listening" => (locals.hederaClient /\ locals.mainTopicId # 0))
    /\ [][StartupFailure => proc' = "exited"]_vars
    /\ [][proc = "exited" => FALSE]_vars

\* the store connection had opened, the main topic could be neither found nor
\* created, and the process exited without having set app.locals
C15_Witness ==
    /\ proc = "exited"
    /\ req.op = "startServer"
    /\ req.client /\ req.topic = "not created"
    /\ locals.upload
    /\ ~locals.hederaClient

----------------------------------------------------------------------------
(* Properties of the searches *)

ServerSearchOp == req.op = "searchPapers"
AgentSearchOp == req.op = "agent searchPapers"
ChatOp == req.op = "POST /api/chat"

\* the text is missing or holds nothing but blanks
OnlyBlanks(text) == text = Undef \/ \A i \in DOMAIN text.s : text.s[i] = " "

\* a word of the text occurs, in any case, in the string
WordIn(text, string) ==
    \E i \in DOMAIN text.s, j \in DOMAIN string.s :
        /\ text.s[i] \notin {" "} \cup StopWords
        /\ ToLowerCase(text.s[i]) = ToLowerCase(string.s[j])

\* the stored papers whose title, abstract or keywords hold a word of the text
Matching(text) ==
    {k \in DOMAIN papers :
        \/ WordIn(text, papers[k].title)
        \/ WordIn(text, papers[k].abstract)
        \/ \E n \in DOMAIN papers[k].keywords.a : WordIn(text, papers[k].keywords.a[n])}

\* C4 as stated: both searchPapers return the whole collection for an empty or
\* whitespace-only query, and an empty list for a query that matches nothing.
C4_AsClaimed ==
    (ServerSearchOp \/ AgentSearchOp) =>
        /\ OnlyBlanks(req.query) => res.body = papers
        /\ (~OnlyBlanks(req.query) /\ Matching(req.query) = {}) => res.body = <<>>

\* C4 (amended): for an empty, whitespace-only or missing query the server's
\* searchPapers returns every stored paper and the agent's returns the first
\* five of them (all when fewer are stored); for a query that matches no title,
\* abstract or keyword both return an empty list.
C4_SearchDegrades ==
    /\ (ServerSearchOp /\ OnlyBlanks(req.query)) => res.body = papers
    /\ (AgentSearchOp /\ OnlyBlanks(req.query)) =>
        /\ Len(res.body) = IF Len(papers) < 5 THEN Len(papers) ELSE 5
        /\ \A i \in DOMAIN res.body : res.body[i] = papers[i]
    /\ ((ServerSearchOp \/ AgentSearchOp)
            /\ ~OnlyBlanks(req.query) /\ Matching(req.query) = {}) => res.body = <<>>

\* the agent's search has cut a whitespace-only query's listing to five papers
C4_Witness ==
    /\ AgentSearchOp
    /\ req.query = Str(<<" ", " ">>)
    /\ Len(papers) > 5
    /\ Len(res.body) = 5

NonEmptyString(v) == v.t = "str" /\ v.s # <<>>

\* C6 as stated: a chat request with a non-empty message that matches no paper
\* succeeds with a non-empty reply and an empty papers array, with or without
\* an LLM client and also when the paper search throws.
C6_AsClaimed ==
    (ChatOp /\ Truthy(req.message) /\ (Matching(req.message) = {} \/ ~req.searchOk)) =>
        /\ res.status = 200
        /\ NonEmptyString(res.body.reply)
        /\ res.body.papers = <<>>

\* C6 (amended): for a non-empty message that matches no paper, or whose paper
\* search throws: without an LLM client the request succeeds with a non-empty
\* reply and an empty papers array; with an LLM client it fails with status
\* 500 when the LLM call fails, and otherwise succeeds with an empty papers
\* array and the LLM's content, whatever it is, as the reply.
C6_NoMatchReply ==
    (ChatOp /\ Truthy(req.message) /\ (Matching(req.message) = {} \/ ~req.searchOk)) =>
        IF ~env.OPENAI_API_KEY
        THEN /\ res.status = 200
             /\ NonEmptyString(res.body.reply)
             /\ res.body.papers = <<>>
        ELSE IF ~req.llm.ok
        THEN res.status = 500
        ELSE /\ res.status = 200
             /\ res.body.reply = req.llm.content
             /\ res.body.papers = <<>>

\* without an LLM client, a message whose search threw over matching papers
\* was answered with the fallback reply and no papers
C6_Witness ==
    /\ ChatOp
    /\ ~env.OPENAI_API_KEY
    /\ Truthy(req.message)
    /\ Matching(req.message) # {}
    /\ ~req.searchOk
    /\ res.status = 200
    /\ NonEmptyString(res.body.reply)
    /\ res.body.papers = <<>>

\* the paperIds of the response's papers array
ChatPaperIds == {res.body.papers[i].paperId : i \in DOMAIN res.body.papers}

\* C7 as stated: the papers array of a chat response holds the paperId of every
\* stored paper whose title matches the message, however many papers match.
C7_AsClaimed ==
    (ChatOp /\ res.status = 200 /\ req.searchOk) =>
        \A k \in DOMAIN papers :
            WordIn(req.message, papers[k].title) => papers[k].paperId \in ChatPaperIds

\* C7 (amended): when the chat request succeeds and its search did not throw,
\* the papers array holds the paperId of every stored paper whose title
\* matches the message provided at most three stored papers match it; when
\* more match, the array holds exactly three of the matching papers.
C7_MatchesListed ==
    (ChatOp /\ res.status = 200 /\ req.searchOk) =>
        /\ Cardinality(Matching(req.message)) <= 3 =>
            \A k \in DOMAIN papers :
                WordIn(req.message, papers[k].title) => papers[k].paperId \in ChatPaperIds
        /\ Cardinality(Matching(req.message)) > 3 =>
            /\ Len(res.body.papers) = 3
            /\ Cardinality(ChatPaperIds) = 3
            /\ ChatPaperIds \subseteq {papers[k].paperId : k \in Matching(req.message)}

\* three papers titled as the message asks were all listed
C7_Witness ==
    /\ ChatOp
    /\ res.status = 200
    /\ req.searchOk
    /\ req.message = Str(<<"Test">>)
    /\ Cardinality({k \in DOMAIN papers : WordIn(req.message, papers[k].title)}) = 3
    /\ Cardinality(ChatPaperIds) = 3

----------------------------------------------------------------------------
(* Properties of recordAccess *)

\* calls i and j are the only two calls made on their paper, both saved, and
\* j began after i had saved
TwiceInSequence(i, j) ==
    /\ i < j
    /\ accessLog[i].k = accessLog[j].k
    /\ \A c \in DOMAIN accessLog : accessLog[c].k = accessLog[i].k => c \in {i, j}
    /\ accessLog[i].done /\ accessLog[i].ok
    /\ accessLog[j].done /\ accessLog[j].ok
    /\ i \in accessLog[j].began

SeesFirstSave(i, j) ==
    \/ accessLog[i].h = accessLog[j].h
    \/ i \in accessLog[j].seen

TwiceConcurrently(i, j) ==
    /\ i < j
    /\ accessLog[i].k = accessLog[j].k
    /\ \A c \in DOMAIN accessLog : accessLog[c].k = accessLog[i].k => c \in {i, j}
    /\ accessLog[i].done /\ accessLog[i].ok
    /\ accessLog[j].done /\ accessLog[j].ok
    /\ i \notin accessLog[j].began

\* C22: two concurrent calls of recordAccess on the same paper, both made on a
\* count of n before either has saved, lose an update: when both have saved
\* accessCount is n + 1, not n + 2.
C22_LostUpdate ==
    \A i, j \in DOMAIN accessLog :
        TwiceConcurrently(i, j) =>
            /\ accessLog[i].h # accessLog[j].h
            /\ accessLog[j].before = accessLog[i].before
            /\ accessLog[j].after = accessLog[i].before + 1
            /\ papers[accessLog[j].k].accessCount = accessLog[i].before + 1

\* two calls on the same paper were in flight together and both have saved:
\* the count went from n > 0 to n + 1
C22_Witness ==
    /\ Len(accessLog) = 2
    /\ TwiceConcurrently(1, 2)
    /\ accessLog[1].before > 0
    /\ accessLog[1].after = accessLog[1].before + 1
    /\ papers[accessLog[1].k].accessCount = accessLog[1].before + 1
    /\ \A h \in DocHandles : docs[h] # NoDoc /\ docs[h].state = "held"

----------------------------------------------------------------------------
(* src/routes/paperRoutes.js: uploads to an app that restarts over its database *)

\* a server process starts over a database that has a metadata-only paper
\* from an earlier run
UploadInit ==
    /\ proc = "starting"
    /\ locals = [upload |-> FALSE, hederaClient |-> FALSE, mainTopicId |-> 0]
    /\ env = [MAIN_TOPIC_ID |-> 1, NODE_ENV |-> "development", OPENAI_API_KEY |-> FALSE]
    /\ submitted = <<BaseBody(PaperId(1))>>
    /\ papers = <<CreatePaperDocument(BaseBody(PaperId(1)))>>
    /\ blobs = {}
    /\ topics = <<"registry">>
    /\ req = NoRequest
    /\ res = NoResponse
    /\ docs = <<>>
    /\ accessLog = <<>>
    /\ agent = NoAgent
    /\ servers = <<>>

UploadNext ==
    \/ ConnOpen
    \/ StartServer
    \/ AppUpload

SpecUpload == UploadInit /\ [][UploadNext]_vars

----------------------------------------------------------------------------
(* Properties of failed uploads *)

\* no paper record names the stored file b
Orphaned(b, coll) == \A k \in DOMAIN coll : coll[k].fileId # b

\* a step in which an upload whose file the storage engine wrote is answered
\* with a failure
UploadFailsAfterStore ==
    /\ Handles(UploadOp)
    /\ locals.upload
    /\ FileAccepted(req'.file)
    /\ res'.status # 201

\* C25: an upload that fails after its file was stored (no ledger client or
\* main topic, content topic not created, or the save refused) leaves the
\* file in the bucket with no paper record naming it; no step removes a file
\* from the bucket or gives a stored file a record later.
C25_BlobOrphaned ==
    /\ [][UploadFailsAfterStore =>
            /\ res'.status = 500
            /\ papers' = papers
            /\ \E b \in blobs' \ blobs :
                /\ blobs' = blobs \cup {b}
                /\ Orphaned(b, papers')]_vars
    /\ [][/\ blobs \subseteq blobs'
          /\ \A b \in blobs : Orphaned(b, papers) => Orphaned(b, papers')]_vars

\* an upload of a paper id that is taken was refused by the save; its file is
\* in the bucket and no record names it, and its content topic exists
C25_Witness ==
    /\ req.op = UploadOp
    /\ res.status = 500
    /\ res.body.message = "E11000 duplicate key error"
    /\ blobs # {}
    /\ \A b \in blobs : Orphaned(b, papers)
    /\ Len(topics) = 2

----------------------------------------------------------------------------
(* Properties of the main registry topic *)

\* a step in which startServer runs getOrCreateMainTopic to its end
MainTopicStep ==
    /\ proc = "starting"
    /\ req'.op = "startServer"
    /\ req'.client

\* app.locals.mainTopicId is assigned by startServer only, once, and a
\* listening server has one
MainTopicIdSetOnce ==
    /\ [](proc = "listening" => locals.mainTopicId # 0)
    /\ [][locals'.mainTopicId # locals.mainTopicId
            => /\ MainTopicStep
               /\ locals.mainTopicId = 0
               /\ proc' = "listening"]_vars

\* C24 as claimed: getOrCreateMainTopic creates no topic and returns the
\* configured id when MAIN_TOPIC_ID is set and found, and creates exactly one
\* topic otherwise; app.locals.mainTopicId is set once at startup and does not
\* change afterwards.
C24_AsClaimed ==
    /\ [][MainTopicStep =>
            IF req'.topic = "found"
            THEN /\ topics' = topics
                 /\ locals'.mainTopicId = env.MAIN_TOPIC_ID
            ELSE /\ Len(topics') = Len(topics) + 1
                 /\ locals'.mainTopicId = Len(topics')]_vars
    /\ MainTopicIdSetOnce

\* C24 (amended): getOrCreateMainTopic creates no topic and returns the
\* configured id when MAIN_TOPIC_ID is set and found; otherwise it creates
\* exactly one topic when the creation succeeds, and none when it fails, in
\* which case the process exits; app.locals.mainTopicId is set once, when
\* startup succeeds, and does not change while the server runs.
C24_MainTopicOnce ==
    /\ [][MainTopicStep =>
            CASE req'.topic = "found" ->
                    /\ topics' = topics
                    /\ proc' = "listening"
                    /\ locals'.mainTopicId = env.MAIN_TOPIC_ID
              [] req'.topic = "created" ->
                    /\ topics' = Append(topics, "registry")
                    /\ proc' = "listening"
                    /\ locals'.mainTopicId = Len(topics')
              [] req'.topic = "not created" ->
                    /\ topics' = topics
                    /\ proc' = "exited"
                    /\ locals'.mainTopicId = 0]_vars
    /\ MainTopicIdSetOnce

\* a server that found its configured topic has since created a content
\* topic for an upload, and its main topic id is still the configured one
C24_Witness ==
    /\ proc = "listening"
    /\ locals.mainTopicId = env.MAIN_TOPIC_ID
    /\ Len(topics) = 2
    /\ topics[2] = "content"
    /\ papers # <<>>

\* process p listens after a start with no usable MAIN_TOPIC_ID: none was
\* set, or the ledger did not find the one set
StartedWithoutTopic(p) ==
    /\ servers[p].pc = "listening"
    /\ servers[p].asked # "found"

\* C23: server processes started with no usable MAIN_TOPIC_ID each create a
\* main registry topic of their own, whether or not their starts overlap: any
\* two of them listen with distinct registry topics.
C23_EachCreatesItsOwn ==
    \A p, q \in ServerIds :
        (p # q /\ StartedWithoutTopic(p) /\ StartedWithoutTopic(q)) =>
            /\ servers[p].mainTopicId # servers[q].mainTopicId
            /\ servers[p].created = servers[p].mainTopicId
            /\ servers[q].created = servers[q].mainTopicId
            /\ topics[servers[p].mainTopicId] = "registry"
            /\ topics[servers[q].mainTopicId] = "registry"

\* two processes with MAIN_TOPIC_ID unset were both about to create a topic
\* at the same time, and the ledger has a registry topic for each
C23_Witness ==
    /\ env.MAIN_TOPIC_ID = 0
    /\ StartedWithoutTopic(1) /\ StartedWithoutTopic(2)
    /\ 1 \in servers[2].racing
    /\ servers[1].mainTopicId # servers[2].mainTopicId
    /\ Cardinality({t \in DOMAIN topics : topics[t] = "registry"}) = 3

----------------------------------------------------------------------------
(* Properties of the agent *)

\* a step in which the agent takes the input cmd at its prompt
Takes(cmd) ==
    /\ agent.pc = "prompt"
    /\ agent'.commands = agent.commands + 1
    /\ agent'.input.cmd = cmd

\* a quote was computed for the session
QuoteComputed(chat) == chat.quote.papersCost # Undef

\* C16: /quote computes a quote only when the session has a related paper;
\* with none it leaves the session's quote, related papers, payment status and
\* messages as they were.
C16_QuoteNeedsPapers ==
    [][Takes("/quote") =>
        /\ agent'.chat.quote # agent.chat.quote => agent.chat.relatedPapers # <<>>
        /\ agent.chat.relatedPapers = <<>> =>
            /\ agent'.chat.quote = agent.chat.quote
            /\ agent'.chat.relatedPapers = agent.chat.relatedPapers
            /\ agent'.chat.paymentStatus = agent.chat.paymentStatus
            /\ agent'.chat.messages = agent.chat.messages]_vars

\* /quote was refused for a session that has a message but no related paper
\* and no quote
C16_Witness ==
    /\ agent.pc = "prompt"
    /\ agent.input.cmd = "/quote"
    /\ agent.said = "No papers selected yet. Please search for papers first."
    /\ agent.chat.relatedPapers = <<>>
    /\ agent.chat.messages # <<>>
    /\ ~QuoteComputed(agent.chat)

\* C17 as claimed: paymentStatus becomes 'paid' only when a quote was computed
\* before, and a /pay taken before any quote was computed leaves the status
\* 'pending' and the paid cache as it was (here: in runs in which no call has
\* failed).
C17_AsClaimed ==
    /\ [][(agent.chat.paymentStatus # "paid" /\ agent'.chat.paymentStatus = "paid"
                /\ ~agent'.faulted)
            => QuoteComputed(agent.chat)]_vars
    /\ [][(Takes("/pay") /\ ~QuoteComputed(agent.chat) /\ ~agent'.faulted)
            => /\ agent'.chat.paymentStatus = "pending"
               /\ agent'.cache = agent.cache]_vars

\* C18: once the session's paymentStatus is 'paid' it stays 'paid', and a /pay
\* taken then changes nothing: no payment, no content read, no LLM call.
C18_PaidIsTerminal ==
    /\ [][agent.chat.paymentStatus = "paid" => agent'.chat.paymentStatus = "paid"]_vars
    /\ [][(Takes("/pay") /\ agent.chat.paymentStatus = "paid")
            => /\ agent'.pc = "prompt"
               /\ agent'.chat = agent.chat
               /\ agent'.cache = agent.cache
               /\ agent'.events = agent.events]_vars

\* after a payment whose findings were added to the session, a second /pay was
\* answered 'already paid'
C18_Witness ==
    /\ agent.pc = "prompt"
    /\ agent.input.cmd = "/pay"
    /\ agent.said = "You've already paid for these papers."
    /\ agent.chat.paymentStatus = "paid"
    /\ \E i \in DOMAIN agent.events : agent.events[i].kind = "llm"
    /\ \E i \in DOMAIN agent.chat.messages : agent.chat.messages[i].role = "assistant"

\* C19: file content is read, and given to the LLM, only within a /pay step
\* and only when the session's paymentStatus is 'paid'.
C19_ContentAfterPaid ==
    /\ [](\A i \in DOMAIN agent.events :
            agent.events[i].kind \in {"read", "llm"} => agent.events[i].status = "paid")
    /\ [][agent'.events # agent.events
            => /\ agent'.input.cmd = "/pay"
               /\ agent'.chat.paymentStatus = "paid"]_vars

\* a stored file was read and its content given to the LLM, the session paid
C19_Witness ==
    /\ agent.chat.paymentStatus = "paid"
    /\ \E i, j \in DOMAIN agent.events :
        /\ i < j
        /\ agent.events[i].kind = "read"
        /\ agent.events[j].kind = "llm"
        /\ \E n \in DOMAIN agent.events[j].what.a : agent.events[j].what.a[n].t = "content"

\* C20 as claimed: whenever the session has a quote, totalCost = papersCost +
\* platformFee, platformFee is 5% of papersCost, and papersCost is the sum of
\* the fees of the session's current related papers (here: in runs in which no
\* call has failed).
C20_AsClaimed ==
    (QuoteComputed(agent.chat) /\ ~agent.faulted) =>
        LET quote == agent.chat.quote
        IN  /\ quote.totalCost.n = quote.papersCost.n + quote.platformFee.n
            /\ 100 * quote.platformFee.n = 5 * quote.papersCost.n
            /\ quote.papersCost.n = 100 * SumFees(agent.chat.relatedPapers)

\* the agent is handling a /pay: the step that takes it, or a later step of it
InPay ==
    \/ Takes("/pay")
    \/ agent.pc \in {"retrieving", "responding"}

\* C21: /pay submits nothing to the ledger, whose topics stay as they were;
\* the payment itself changes of the session only its paymentStatus, to
\* 'paid', and adds the ids of the related papers to the paid cache.
C21_PayMovesNothing ==
    /\ [][InPay => /\ agent'.ledger = agent.ledger
                   /\ topics' = topics]_vars
    /\ [][(Takes("/pay") /\ agent'.chat # agent.chat)
            => /\ agent'.chat = [agent.chat EXCEPT !.paymentStatus = "paid"]
               /\ agent'.cache \in {agent.cache,
                                    agent.cache \cup PaperIdsOf(agent.chat.relatedPapers)}]_vars

\* a /pay has run to its end for two related papers, which are in the paid
\* cache, and the ledger was given nothing
C21_Witness ==
    /\ agent.pc = "prompt"
    /\ agent.input.cmd = "/pay"
    /\ agent.chat.paymentStatus = "paid"
    /\ Len(agent.chat.relatedPapers) = 2
    /\ PaperIdsOf(agent.chat.relatedPapers) \subseteq agent.cache
    /\ agent.said = "=== RESEARCH FINDINGS ==="
    /\ agent.ledger = <<>>

\* C26 as claimed: whenever the session's paymentStatus is 'paid', the id of
\* every paper in its current relatedPapers is in paidPapersCache (here: for
\* sessions that were paid with a quote, in runs in which no call has failed).
C26_AsClaimed ==
    (/\ agent.chat.paymentStatus = "paid"
     /\ \A i \in DOMAIN agent.events :
            agent.events[i].kind = "payment" => agent.events[i].what # Undef
     /\ ~agent.faulted) =>
        PaperIdsOf(agent.chat.relatedPapers) \subseteq agent.cache

\* a /pay of a quoted session, the first call to fail, ends with the payment
\* reported as failed
PaymentFails ==
    /\ Takes("/pay")
    /\ QuoteComputed(agent.chat)
    /\ ~agent.faulted
    /\ agent'.said = "Payment failed. Please try again."

\* C27 as claimed: when saving the paid status fails, the payment is reported
\* as failed, the session's paymentStatus is not 'paid' afterwards and the
\* paid cache is as it was; a /pay taken next attempts the payment again and
\* is not answered 'already paid'.
C27_AsClaimed ==
    /\ [][PaymentFails =>
            /\ agent'.chat.paymentStatus # "paid"
            /\ agent'.cache = agent.cache]_vars
    /\ [][(/\ Takes("/pay")
           /\ QuoteComputed(agent.chat)
           /\ agent.input.cmd = "/pay"
           /\ agent.said = "Payment failed. Please try again.")
            => agent'.said # "You've already paid for these papers."]_vars

\* the agent is between an input and the prompt that follows it
Handling == agent.pc \in {"retrieving", "responding"}

\* C28: after every input but /exit, whether its command was carried out,
\* refused or threw, the agent comes back to its prompt with exactly one
\* question pending; while it handles an input, and after /exit, none is
\* pending, and after /exit it never prompts again.
C28_PromptsOnce ==
    /\ [](agent.pc = "prompt" => agent.pending = 1)
    /\ [](agent.pc \in {"retrieving", "responding", "exited"} => agent.pending = 0)
    /\ [][Takes("/exit") => agent'.pc = "exited"]_vars
    /\ [][(agent.pc = "prompt" /\ agent'.commands # agent.commands /\ ~Takes("/exit"))
            => (agent'.pc = "prompt" \/ Handling')]_vars
    /\ [][agent.pc = "exited" => (agent'.pc = "exited" /\ agent'.pending = 0)]_vars
    /\ (Handling ~> (agent.pc = "prompt" /\ agent.pending = 1))

\* the agent is back at its prompt, one question pending, after three inputs
\* of which a call failed and the last was a /pay that ran to its end
C28_Witness ==
    /\ agent.pc = "prompt"
    /\ agent.pending = 1
    /\ agent.commands = 3
    /\ agent.input.cmd = "/pay"
    /\ agent.said = "=== RESEARCH FINDINGS ==="
    /\ agent.faulted

====
